---- MODULE Spec2Model ----
(***************************************************************************)
(* A model of the transcription benchmark's normalizer and batch           *)
(* comparator (analysis.py).                                               *)
(*                                                                         *)
(* JSON values are tagged records, so that values of different Python      *)
(* types can be told apart and compared:                                   *)
(*   null    [t |-> "null"]                                                *)
(*   number  [t |-> "num", n |-> numerator, d |-> denominator]  (reduced)  *)
(*   bool    [t |-> "bool", b |-> TRUE/FALSE]                              *)
(*   string  [t |-> "str", s |-> sequence of characters]                   *)
(*   list    [t |-> "list", l |-> sequence of values]                      *)
(*   object  [t |-> "obj", o |-> function from keys to values]             *)
(* Numbers are exact rationals; the rounding of binary floating point, NaN *)
(* and the infinities are not modelled.  A raised Python exception is the  *)
(* value Raised, which every operation below passes on.                    *)
(***************************************************************************)
EXTENDS Integers, Sequences, FiniteSets, TLC

VARIABLES
    pc,          \* position of the running script / call
    fs,          \* the JSON folder: file name -> file content
    filepath,    \* load_json's argument in the single-call specification
    provider,    \* normalize_data's provider tag in the single-call specification
    raw,         \* what load_json returned
    result,      \* what normalize_data returned
    unique_ids,  \* analysis.py: unique_ids
    loaded,      \* d_oai, d_dg, d_aai of the identifier being processed
    todo,        \* the part of sorted(unique_ids) the loop has still to visit
    all_rows,    \* analysis.py: all_rows
    csv,         \* the rows written to OUTPUT_CSV, or NotWritten
    summary,     \* the two means of the printed summary, or None
    text1,       \* get_similarity's first argument in the comparison specification
    text2,       \* get_similarity's second argument
    ratio,       \* what get_similarity returned
    script,          \* the batch driver that runs: general.py or spanish.py
    listing,         \* os.listdir(INPUT_FOLDER), or NoFolder
    files,           \* general.py: files
    index,           \* the position in files of the file being processed
    detected_lang,   \* general.py: detected_lang
    openai_data,     \* general.py: openai_data
    deepgram_data,   \* general.py: deepgram_data
    assembly_data,   \* general.py: assembly_data
    full_results,    \* general.py: full_results
    saved,           \* the save_json writes so far, in order
    requests,        \* the HTTP requests made so far, in order, with what they yielded
    handlers,        \* the /transcribe requests of the HTTP wrappers and where each stands
    tempdir          \* the temporary files that exist

\* The variables of the comparison specification.
simvars == <<text1, text2, ratio>>

\* The variables of the batch drivers (with pc and csv).
drivervars ==
    <<script, listing, files, index, detected_lang, openai_data, deepgram_data, assembly_data,
      full_results, saved, requests>>

\* The variables of the HTTP wrappers.
wrappervars == <<handlers, tempdir>>

vars == <<pc, fs, filepath, provider, raw, result, unique_ids, loaded, todo, all_rows, csv, summary,
          simvars, drivervars, wrappervars>>

(***************************************************************************)
(* Bounds of the model.                                                    *)
(***************************************************************************)
MaxWords == 2
MaxFiles == 3
MaxLen == 3

(***************************************************************************)
(* Values.                                                                 *)
(***************************************************************************)
None == [t |-> "null"]
Raised == [t |-> "raise"]

RECURSIVE GCD(_, _)
GCD(a, b) == IF b = 0 THEN a ELSE GCD(b, a % b)

Abs(i) == IF i < 0 THEN -i ELSE i

\* The rational n/d in lowest terms with a positive denominator.
JNum(n, d) ==
    LET g == GCD(Abs(n), Abs(d))
        s == IF d < 0 THEN -1 ELSE 1
    IN [t |-> "num", n |-> s * (n \div g), d |-> s * (d \div g)]

JInt(i) == [t |-> "num", n |-> i, d |-> 1]
JBool(b) == [t |-> "bool", b |-> b]
JStr(s) == [t |-> "str", s |-> s]
JList(l) == [t |-> "list", l |-> l]
JObj(o) == [t |-> "obj", o |-> o]
EmptyObj == JObj(<<>>)

\* Python's int, float and bool take part in arithmetic; bool counts as 0 or 1.
IsNumber(v) == v.t \in {"num", "bool"}
Numer(v) == IF v.t = "bool" THEN (IF v.b THEN 1 ELSE 0) ELSE v.n
Denom(v) == IF v.t = "bool" THEN 1 ELSE v.d

\* Python truthiness: `if not data`, `if words`.
Truthy(v) ==
    CASE v.t = "null" -> FALSE
      [] v.t = "bool" -> v.b
      [] v.t = "num" -> v.n # 0
      [] v.t = "str" -> Len(v.s) > 0
      [] v.t = "list" -> Len(v.l) > 0
      [] v.t = "obj" -> DOMAIN v.o # {}
      [] OTHER -> FALSE

\* v.get(key, default): AttributeError unless v is a dict.
Get(v, key, default) ==
    IF v.t = "obj"
    THEN IF key \in DOMAIN v.o THEN v.o[key] ELSE default
    ELSE Raised

\* v[0]: IndexError on an empty list or string, KeyError on a dict (JSON keys are
\* strings), TypeError on anything else.
Index0(v) ==
    CASE v.t = "list" /\ Len(v.l) > 0 -> v.l[1]
      [] v.t = "str" /\ Len(v.s) > 0 -> JStr(<<v.s[1]>>)
      [] OTHER -> Raised

\* len(v): TypeError on None, numbers and bools (HasLen is then false).
HasLen(v) == v.t \in {"list", "str", "obj"}
PyLen(v) ==
    CASE v.t = "list" -> Len(v.l)
      [] v.t = "str" -> Len(v.s)
      [] v.t = "obj" -> Cardinality(DOMAIN v.o)

\* a - b: TypeError unless both are numbers.
Sub(a, b) ==
    IF IsNumber(a) /\ IsNumber(b)
    THEN JNum(Numer(a) * Denom(b) - Numer(b) * Denom(a), Denom(a) * Denom(b))
    ELSE Raised

\* a / 1000.0: TypeError unless a is a number.
DivBy(a, k) ==
    IF IsNumber(a) THEN JNum(Numer(a), Denom(a) * k) ELSE Raised

\* a * k for an integer k.
MulBy(a, k) ==
    IF IsNumber(a) THEN JNum(Numer(a) * k, Denom(a)) ELSE Raised

RECURSIVE SumSeq(_)
\* The exact sum of a sequence of numbers, as [n, d].
SumSeq(xs) ==
    IF xs = <<>> THEN JInt(0)
    ELSE LET r == SumSeq(Tail(xs))
             h == Head(xs)
         IN JNum(Numer(h) * r.d + r.n * Denom(h), Denom(h) * r.d)

\* statistics.mean(xs): TypeError when an element is no number; xs is never
\* empty where the code calls it.
Mean(xs) ==
    IF \A i \in 1..Len(xs) : IsNumber(xs[i])
    THEN LET s == SumSeq(xs) IN JNum(s.n, s.d * Len(xs))
    ELSE Raised

\* The key under which a value sits in a Python set: 1, 1.0 and True are one
\* element.  Lists and dicts are unhashable.
Hashable(v) == v.t \in {"null", "num", "bool", "str"}
HashKey(v) == IF v.t = "bool" THEN JInt(Numer(v)) ELSE v

(***************************************************************************)
(* load_json.  A file's content is unreadable, not JSON, or a JSON         *)
(* document; a path is a file name or None.                                *)
(***************************************************************************)
Unreadable == [k |-> "unreadable"]
InvalidJson == [k |-> "invalid"]
JsonFile(v) == [k |-> "json", doc |-> v]

\* load_json with a default document in place of None on failure.
load_json_default(disk, path) ==
    IF path.t # "str" THEN EmptyObj
    ELSE IF path.s \notin DOMAIN disk THEN EmptyObj
    ELSE IF disk[path.s].k # "json" THEN EmptyObj
    ELSE disk[path.s].doc

\* A path is None or a string, JStr(file name).
load_json(disk, path) ==
    IF path.t # "str" THEN None                    \* open(None): TypeError
    ELSE IF path.s \notin DOMAIN disk THEN None    \* FileNotFoundError
    ELSE IF disk[path.s].k # "json" THEN None      \* OSError, JSONDecodeError
    ELSE disk[path.s].doc

(***************************************************************************)
(* normalize_data.                                                         *)
(***************************************************************************)
OpenAI == "OpenAI"
Deepgram == "Deepgram"
AssemblyAI == "AssemblyAI"
Providers == {OpenAI, Deepgram, AssemblyAI}

\* analysis.py lines 26-34.
NormDefaults ==
    [text |-> JStr(<<>>), start |-> JInt(0), end |-> JInt(0), duration |-> JInt(0),
     confidence |-> JInt(0), speakers |-> 0, word_count |-> 0]

\* Inside `if words:` every element is sent .get(...), the first and the last
\* for the timestamps and all of them for the confidences: a truthy `words`
\* that is no list of dicts raises (a str yields a character, which has no
\* .get; a number is not subscriptable; a dict has no key 0).
ListOfDicts(words) ==
    /\ words.t = "list"
    /\ \A i \in 1..Len(words.l) : words.l[i].t = "obj"

\* The confidences with 1.0 for a word without the field, whatever the provider.
ConfsDefaultOne(l, default) == [i \in 1..Len(l) |-> Get(l[i], "confidence", JInt(1))]

\* [w.get("confidence", default) for w in words]
Confs(l, default) == [i \in 1..Len(l) |-> Get(l[i], "confidence", default)]

\* Deepgram, line 61: the speaker values of the words that have the key.
DeepgramLabels(l) ==
    {l[i].o["speaker"] : i \in {j \in 1..Len(l) : "speaker" \in DOMAIN l[j].o}}

\* AssemblyAI, line 74: the speaker values that are not None.
AssemblyLabels(l) ==
    {Get(l[i], "speaker", None) : i \in {j \in 1..Len(l) : Get(l[j], "speaker", None) # None}}

\* len(speakers) if speakers else 1
SpeakerCount(labels) ==
    LET n == Cardinality({HashKey(x) : x \in labels})
    IN IF n = 0 THEN 1 ELSE n

\* The OpenAI block with the end taken from words[0] instead of words[-1].
OpenAIWordsFirstEnd(norm, words) ==
    IF ~ListOfDicts(words) THEN Raised
    ELSE LET l == words.l
             m == Mean(Confs(l, JInt(1)))
         IN IF m = Raised THEN Raised
            ELSE [norm EXCEPT !.start = Get(l[1], "start", JInt(0)),
                              !.end = Get(l[1], "end", JInt(0)),
                              !.confidence = MulBy(m, 100)]

\* Lines 42-50: the `if words:` block of the OpenAI branch.
OpenAIWords(norm, words) ==
    IF ~ListOfDicts(words) THEN Raised
    ELSE LET l == words.l
             m == Mean(Confs(l, JInt(1)))
         IN IF m = Raised THEN Raised
            ELSE [norm EXCEPT !.start = Get(l[1], "start", JInt(0)),
                              !.end = Get(l[Len(l)], "end", JInt(0)),
                              !.confidence = MulBy(m, 100)]

\* Lines 58-64: the `if words:` block of the Deepgram branch.
DeepgramWords(norm, words) ==
    IF ~ListOfDicts(words) THEN Raised
    ELSE LET l == words.l
             labels == DeepgramLabels(l)
             m == Mean(Confs(l, JInt(0)))
         IN IF (\E x \in labels : ~Hashable(x)) \/ m = Raised THEN Raised
            ELSE [norm EXCEPT !.start = Get(l[1], "start", JInt(0)),
                              !.end = Get(l[Len(l)], "end", JInt(0)),
                              !.speakers = SpeakerCount(labels),
                              !.confidence = MulBy(m, 100)]

\* The AssemblyAI block without the conversion from milliseconds.
AssemblyWordsNoDivision(norm, words) ==
    IF ~ListOfDicts(words) THEN Raised
    ELSE LET l == words.l
             st == DivBy(Get(l[1], "start", JInt(0)), 1)
             en == DivBy(Get(l[Len(l)], "end", JInt(0)), 1)
             labels == AssemblyLabels(l)
             m == Mean(Confs(l, JInt(0)))
         IN IF st = Raised \/ en = Raised \/ (\E x \in labels : ~Hashable(x)) \/ m = Raised
            THEN Raised
            ELSE [norm EXCEPT !.start = st, !.end = en,
                              !.speakers = SpeakerCount(labels),
                              !.confidence = MulBy(m, 100)]

\* Lines 70-77: the `if words:` block of the AssemblyAI branch.
AssemblyWords(norm, words) ==
    IF ~ListOfDicts(words) THEN Raised
    ELSE LET l == words.l
             st == DivBy(Get(l[1], "start", JInt(0)), 1000)
             en == DivBy(Get(l[Len(l)], "end", JInt(0)), 1000)
             labels == AssemblyLabels(l)
             m == Mean(Confs(l, JInt(0)))
         IN IF st = Raised \/ en = Raised \/ (\E x \in labels : ~Hashable(x)) \/ m = Raised
            THEN Raised
            ELSE [norm EXCEPT !.start = st, !.end = en,
                              !.speakers = SpeakerCount(labels),
                              !.confidence = MulBy(m, 100)]

\* The OpenAI branch with `norm["speakers"] = 1` inside the `if words:` block.
OpenAIBranchSpeakersInIf(data) ==
    LET text == Get(data, "text", JStr(<<>>))
        words == Get(data, "words", JList(<<>>))
        n1 == [NormDefaults EXCEPT !.text = text]
        n2 == IF Truthy(words)
              THEN LET w == OpenAIWords(n1, words)
                   IN IF w = Raised THEN Raised ELSE [w EXCEPT !.speakers = 1]
              ELSE n1
    IN IF data.t # "obj" \/ n2 = Raised THEN Raised
       ELSE [norm |-> n2, words |-> words]

\* Lines 39-51.  The result is Raised or [norm, words].
OpenAIBranch(data) ==
    LET text == Get(data, "text", JStr(<<>>))
        words == Get(data, "words", JList(<<>>))
        n1 == [NormDefaults EXCEPT !.text = text]
        n2 == IF Truthy(words) THEN OpenAIWords(n1, words) ELSE n1
    IN IF data.t # "obj" \/ n2 = Raised THEN Raised
       ELSE [norm |-> [n2 EXCEPT !.speakers = 1], words |-> words]

\* Line 55: data.get("results", {}).get("channels", [{}])[0].get("alternatives", [{}])[0]
DeepgramAlt(data) ==
    LET results == Get(data, "results", EmptyObj)
        channels == Get(results, "channels", JList(<<EmptyObj>>))
        channel == Index0(channels)
        alternatives == Get(channel, "alternatives", JList(<<EmptyObj>>))
    IN Index0(alternatives)

\* Lines 54-64.
DeepgramBranch(data) ==
    LET alt == DeepgramAlt(data)
        text == Get(alt, "transcript", JStr(<<>>))
        words == Get(alt, "words", JList(<<>>))
        n1 == [NormDefaults EXCEPT !.text = text]
        n2 == IF Truthy(words) THEN DeepgramWords(n1, words) ELSE n1
    IN IF alt.t # "obj" \/ n2 = Raised THEN Raised
       ELSE [norm |-> n2, words |-> words]

\* Lines 67-77.
AssemblyBranch(data) ==
    LET text == Get(data, "text", JStr(<<>>))
        words == Get(data, "words", JList(<<>>))
        n1 == [NormDefaults EXCEPT !.text = text]
        n2 == IF Truthy(words) THEN AssemblyWords(n1, words) ELSE n1
    IN IF data.t # "obj" \/ n2 = Raised THEN Raised
       ELSE [norm |-> n2, words |-> words]

\* The duration clamped to be non-negative.
DurationClamped(norm) ==
    LET d == Sub(norm.end, norm.start)
    IN IF d # Raised /\ d.n < 0 THEN JInt(0) ELSE d

\* Line 80: norm["duration"] = norm["end"] - norm["start"]
Duration(norm) == Sub(norm.end, norm.start)

\* The word count taken before the last word is in the list.
WordCountShort(words) == IF PyLen(words) = 0 THEN 0 ELSE PyLen(words) - 1

\* Line 79: norm["word_count"] = len(words)
WordCount(words) == PyLen(words)

\* Lines 37-84: the try block; Raised stands for every exception it catches.
Extract(data, prov) ==
    LET b == CASE prov = OpenAI -> OpenAIBranch(data)
               [] prov = Deepgram -> DeepgramBranch(data)
               [] prov = AssemblyAI -> AssemblyBranch(data)
    IN IF b = Raised THEN Raised
       ELSE IF ~HasLen(b.words) \/ Duration(b.norm) = Raised THEN Raised
       ELSE [b.norm EXCEPT !.word_count = WordCount(b.words),
                           !.duration = Duration(b.norm)]

\* normalize_data without the except clause: the exception leaves the function.
normalize_data_uncaught(data, prov) ==
    IF ~Truthy(data) THEN None ELSE Extract(data, prov)

\* Lines 22-86.  None or a normalized record.
normalize_data(data, prov) ==
    IF ~Truthy(data) THEN None
    ELSE LET r == Extract(data, prov)
         IN IF r = Raised THEN None ELSE r

(***************************************************************************)
(* The inputs of the single-call specification: raw responses of every     *)
(* JSON type, with keys missing, null-valued or wrongly typed.             *)
(***************************************************************************)
Absent == [t |-> "absent"]

\* The object holding the keys of `fields` whose value is not Absent.
MkObj(fields) ==
    JObj([k \in {x \in DOMAIN fields : fields[x] # Absent} |-> fields[k]])

Word(st, en, conf, spk) ==
    MkObj([start |-> st, end |-> en, confidence |-> conf, speaker |-> spk])

Chars(str) == JStr(str)

\* Words with a timestamp missing, null, of a wrong type, or out of order.
TimeWords ==
    {Word(Absent, Absent, Absent, Absent),
     Word(Absent, JInt(2000), Absent, Absent),
     Word(None, JInt(2000), Absent, Absent),
     Word(JInt(1500), Absent, Absent, Absent),
     Word(JInt(1500), JInt(2000), Absent, Absent),
     Word(JInt(3000), JInt(2000), Absent, Absent),
     Word(JInt(1000), Chars(<<"x">>), Absent, Absent),
     Word(JBool(TRUE), JInt(2000), Absent, Absent)}

ConfWords ==
    {Word(JInt(1000), JInt(2000), conf, Absent) :
        conf \in {JNum(1, 2), JNum(9, 10), None, Chars(<<"x">>)}}

SpeakerWords ==
    {Word(JInt(1000), JInt(2000), JNum(9, 10), spk) :
        spk \in {None, JInt(0), JInt(1), Chars(<<"A">>), JList(<<JInt(1)>>)}}

\* Entries of a word list that are no objects.
NonWords == {None, JInt(1), Chars(<<"w">>)}

WordPool == TimeWords \cup ConfWords \cup SpeakerWords \cup NonWords

WordLists == UNION {[1..n -> WordPool] : n \in 0..MaxWords}

\* Word lists one longer than MaxWords whose words differ in confidence only.
ConfPool == {Absent, JNum(1, 2), JNum(7, 10), JNum(9, 10), JNum(-1, 2)}

ConfLists ==
    {[i \in 1..(MaxWords + 1) |-> Word(JInt(1000), JInt(2000), cs[i], Absent)] :
        cs \in [1..(MaxWords + 1) -> ConfPool]}

\* What may stand where the word list is expected, other than a list.
OddWords ==
    {Absent, None, JInt(0), JInt(5), JBool(TRUE), JBool(FALSE), Chars(<<>>),
     Chars(<<"a", "b">>), EmptyObj, JObj([w |-> JInt(1)])}

Texts == {Absent, None, JInt(5), Chars(<<"h", "i">>)}

\* OpenAI and AssemblyAI keep text and words at the top level.
Flat(text, words) == MkObj([text |-> text, words |-> words])

\* Deepgram keeps them in results.channels[0].alternatives[0].
Alt(text, words) == MkObj([transcript |-> text, words |-> words])
Nested(alt) ==
    JObj([results |-> JObj([channels |-> JList(<<JObj([alternatives |-> JList(<<alt>>)])>>)])])

\* Deepgram-shaped responses whose nesting is broken somewhere.
BrokenNesting ==
    {JObj([results |-> r]) : r \in {None, JList(<<>>), EmptyObj}}
    \cup {JObj([results |-> JObj([channels |-> c])]) :
            c \in {None, JList(<<>>), Chars(<<>>), Chars(<<"a">>), EmptyObj,
                   JList(<<JInt(5)>>), JList(<<EmptyObj>>),
                   JList(<<JObj([alternatives |-> JList(<<>>)])>>),
                   JList(<<JObj([alternatives |-> JList(<<None>>)])>>),
                   JList(<<JObj([alternatives |-> None])>>)}}

\* Responses that are no objects at all, or empty.
NonObjects ==
    {None, EmptyObj, JList(<<>>), JList(<<JInt(1)>>), Chars(<<>>), Chars(<<"a">>),
     JInt(0), JInt(5), JBool(TRUE), JBool(FALSE)}

RawResponses ==
    NonObjects \cup BrokenNesting
    \cup {Flat(text, words) : text \in Texts, words \in OddWords}
    \cup {Nested(Alt(text, words)) : text \in Texts, words \in OddWords}
    \cup {Flat(Chars(<<"h", "i">>), JList(l)) : l \in WordLists}
    \cup {Nested(Alt(Chars(<<"h", "i">>), JList(l))) : l \in WordLists}
    \cup {Flat(Chars(<<"h", "i">>), JList(l)) : l \in ConfLists}
    \cup {Nested(Alt(Chars(<<"h", "i">>), JList(l))) : l \in ConfLists}

(***************************************************************************)
(* The single-call specification: one load_json and one normalize_data,    *)
(* as analysis.py lines 125-127 chain them for one provider.               *)
(***************************************************************************)
NothingLoaded == [p \in Providers |-> None]

\* No batch driver runs.
DriverIdle ==
    /\ script = "none"
    /\ listing = {}
    /\ files = <<>>
    /\ index = 0
    /\ detected_lang = "es"
    /\ openai_data = None
    /\ deepgram_data = None
    /\ assembly_data = None
    /\ full_results = <<>>
    /\ saved = <<>>
    /\ requests = <<>>

\* No HTTP wrapper serves a request.
WrappersIdle ==
    /\ handlers = <<>>
    /\ tempdir = {}
TestFile == <<"f", ".json">>
OtherFile == <<"g", ".json">>
NotWritten == <<[t |-> "no file"]>>

CallInit ==
    /\ pc = "load"
    /\ provider \in Providers
    /\ \/ /\ filepath = JStr(TestFile)
          /\ \E doc \in RawResponses : fs = (TestFile :> JsonFile(doc))
       \/ /\ filepath = JStr(TestFile)
          /\ fs \in {(TestFile :> Unreadable), (TestFile :> InvalidJson)}
       \/ /\ filepath \in {None, JStr(OtherFile)}
          /\ fs = (TestFile :> JsonFile(Flat(Chars(<<"h", "i">>), JList(<<>>))))
    /\ raw = None
    /\ result = None
    /\ unique_ids = {}
    /\ loaded = NothingLoaded
    /\ todo = <<>>
    /\ all_rows = <<>>
    /\ csv = NotWritten
    /\ summary = None
    /\ text1 = None
    /\ text2 = None
    /\ ratio = None
    /\ DriverIdle
    /\ WrappersIdle

\* d = load_json(found_files.get(prov))
Load ==
    /\ pc = "load"
    /\ raw' = load_json(fs, filepath)
    /\ pc' = "normalize"
    /\ UNCHANGED <<fs, filepath, provider, result, unique_ids, loaded, todo, all_rows, csv, summary>>
    /\ UNCHANGED <<simvars, drivervars, wrappervars>>

\* normalize_data(d, provider)
Normalize ==
    /\ pc = "normalize"
    /\ result' = normalize_data(raw, provider)
    /\ pc' = "returned"
    /\ UNCHANGED <<fs, filepath, provider, raw, unique_ids, loaded, todo, all_rows, csv, summary>>
    /\ UNCHANGED <<simvars, drivervars, wrappervars>>

CallNext == Load \/ Normalize

CallSpec == CallInit /\ [][CallNext]_vars

(***************************************************************************)
(* get_similarity: difflib.SequenceMatcher(None, a, b).ratio() on          *)
(* sequences of characters.  No element is junk (isjunk is None, and the   *)
(* automatic junk heuristic needs 200 elements).                           *)
(***************************************************************************)
\* The run with the upper ends taken one position too low.
RECURSIVE RunLenShort(_, _, _, _, _, _)
RunLenShort(a, b, i, j, ahi, bhi) ==
    IF i < ahi - 1 /\ j < bhi - 1 /\ a[i] = b[j]
    THEN 1 + RunLenShort(a, b, i + 1, j + 1, ahi, bhi)
    ELSE 0

\* The length of the longest common run of a and b that starts at a[i], b[j]
\* and stays below ahi, bhi (positions count from 1, the upper ends excluded).
RECURSIVE RunLen(_, _, _, _, _, _)
RunLen(a, b, i, j, ahi, bhi) ==
    IF i < ahi /\ j < bhi /\ a[i] = b[j]
    THEN 1 + RunLen(a, b, i + 1, j + 1, ahi, bhi)
    ELSE 0

\* find_longest_match(alo, ahi, blo, bhi): of the longest matching blocks the
\* one that starts earliest in a, and of those the one that starts earliest in b.
FindLongestMatch(a, b, alo, ahi, blo, bhi) ==
    LET cands == {<<i, j>> : i \in alo..(ahi - 1), j \in blo..(bhi - 1)}
        size(c) == RunLen(a, b, c[1], c[2], ahi, bhi)
        best == CHOOSE c \in cands :
                    \A o \in cands :
                        \/ size(c) > size(o)
                        \/ /\ size(c) = size(o)
                           /\ \/ c[1] < o[1]
                              \/ (c[1] = o[1] /\ c[2] <= o[2])
    IN IF cands = {} \/ size(best) = 0
       THEN [i |-> alo, j |-> blo, k |-> 0]
       ELSE [i |-> best[1], j |-> best[2], k |-> size(best)]

\* get_matching_blocks: the total size of the blocks found in a[alo..ahi) and
\* b[blo..bhi): the longest match, then the same to its left and to its right.
RECURSIVE Matches(_, _, _, _, _, _)
Matches(a, b, alo, ahi, blo, bhi) ==
    LET m == FindLongestMatch(a, b, alo, ahi, blo, bhi)
    IN IF m.k = 0 THEN 0
       ELSE m.k
            + (IF alo < m.i /\ blo < m.j THEN Matches(a, b, alo, m.i, blo, m.j) ELSE 0)
            + (IF m.i + m.k < ahi /\ m.j + m.k < bhi
               THEN Matches(a, b, m.i + m.k, ahi, m.j + m.k, bhi) ELSE 0)

\* The ratio without the factor 2.
RatioUnscaled(a, b) ==
    IF Len(a) + Len(b) = 0 THEN JInt(1)
    ELSE JNum(Matches(a, b, 1, Len(a) + 1, 1, Len(b) + 1), Len(a) + Len(b))

\* ratio(): 2.0 * matches / (len(a) + len(b)), 1.0 for two empty sequences.
Ratio(a, b) ==
    IF Len(a) + Len(b) = 0 THEN JInt(1)
    ELSE JNum(2 * Matches(a, b, 1, Len(a) + 1, 1, Len(b) + 1), Len(a) + Len(b))

\* get_similarity without the guard of line 89.
get_similarity_unguarded(a, b) ==
    IF a.t # "str" \/ b.t # "str" THEN Raised
    ELSE Ratio(a.s, b.s)

\* Lines 88-90.  The texts of the model are strings, numbers, bools or null: a
\* truthy text that is no string makes SequenceMatcher raise TypeError, which
\* nothing catches.
get_similarity(a, b) ==
    IF ~Truthy(a) \/ ~Truthy(b) THEN JInt(0)
    ELSE IF a.t # "str" \/ b.t # "str" THEN Raised
    ELSE Ratio(a.s, b.s)

(***************************************************************************)
(* The comparison specification: one call of get_similarity on two texts,  *)
(* each a string of at most MaxLen characters, null or a number.           *)
(***************************************************************************)
Alphabet == {"a", "b", "c"}

Strings == UNION {[1..n -> Alphabet] : n \in 0..MaxLen}

SimTexts == {None, JInt(5)} \cup {JStr(str) : str \in Strings}

SimInit ==
    /\ pc = "compare"
    /\ text1 \in SimTexts
    /\ text2 \in SimTexts
    /\ ratio = None
    /\ DriverIdle
    /\ WrappersIdle
    /\ fs = <<>>
    /\ filepath = None
    /\ provider = OpenAI
    /\ raw = None
    /\ result = None
    /\ unique_ids = {}
    /\ loaded = NothingLoaded
    /\ todo = <<>>
    /\ all_rows = <<>>
    /\ csv = NotWritten
    /\ summary = None

\* ratio = get_similarity(text1, text2)
Compare ==
    /\ pc = "compare"
    /\ ratio' = get_similarity(text1, text2)
    /\ pc' = "compared"
    /\ UNCHANGED <<fs, filepath, provider, raw, result, unique_ids, loaded, todo, all_rows, csv,
                   summary, text1, text2>>
    /\ UNCHANGED <<drivervars, wrappervars>>

SimNext == Compare

SimSpec == SimInit /\ [][SimNext]_vars

(***************************************************************************)
(* The batch comparator, analysis.py lines 93-170.  A file name is a       *)
(* sequence of symbols: single characters, the three provider words and    *)
(* the extension.                                                          *)
(***************************************************************************)
\* `pat in name`
RECURSIVE FindSub(_, _, _)
\* The first position from `from` at which pat occurs in name, 0 if none.
FindSub(name, pat, from) ==
    IF from + Len(pat) - 1 > Len(name) THEN 0
    ELSE IF SubSeq(name, from, from + Len(pat) - 1) = pat THEN from
    ELSE FindSub(name, pat, from + 1)

Contains(name, pat) == FindSub(name, pat, 1) # 0

\* name.split(pat)[0]
SplitHead(name, pat) ==
    LET at == FindSub(name, pat, 1)
    IN IF at = 0 THEN name ELSE SubSeq(name, 1, at - 1)

\* glob "*_*.json" (line 99)
GlobMatches(name) ==
    /\ Len(name) >= 2
    /\ name[Len(name)] = ".json"
    /\ \E i \in 1..(Len(name) - 1) : name[i] = "_"

\* Lines 96-99: a missing folder is a folder without files.
Discovered(disk) == {name \in DOMAIN disk : GlobMatches(name)}

\* Lines 108-110: the first suffix found in the name decides; a name without
\* any contributes nothing.
ExtractId(name) ==
    IF Contains(name, <<"_", "openai">>) THEN {SplitHead(name, <<"_", "openai">>)}
    ELSE IF Contains(name, <<"_", "deepgram">>) THEN {SplitHead(name, <<"_", "deepgram">>)}
    ELSE IF Contains(name, <<"_", "assembly">>) THEN {SplitHead(name, <<"_", "assembly">>)}
    ELSE {}

\* Lines 103-110.
UniqueIds(disk) == UNION {ExtractId(name) : name \in Discovered(disk)}

\* The code point of a symbol's first character: Python orders strings by code
\* point, and no two symbols start with the same character.
CodePoint(sym) ==
    CASE sym = ".json" -> 46
      [] sym = ".m4a" -> 46
      [] sym = ".mp3" -> 46
      [] sym = ".txt" -> 46
      [] sym = ".wav" -> 46
      [] sym = "0" -> 48
      [] sym = "1" -> 49
      [] sym = "2" -> 50
      [] sym = "3" -> 51
      [] sym = "_" -> 95
      [] sym = "assembly" -> 97
      [] sym = "b" -> 98
      [] sym = "deepgram" -> 100
      [] sym = "openai" -> 111

RECURSIVE StrLess(_, _)
\* a < b for Python strings.
StrLess(a, b) ==
    IF b = <<>> THEN FALSE
    ELSE IF a = <<>> THEN TRUE
    ELSE IF Head(a) = Head(b) THEN StrLess(Tail(a), Tail(b))
    ELSE CodePoint(Head(a)) < CodePoint(Head(b))

RECURSIVE Sorted(_)
\* sorted(ids), line 114.
Sorted(ids) ==
    IF ids = {} THEN <<>>
    ELSE LET least == CHOOSE x \in ids : \A y \in ids : x = y \/ StrLess(x, y)
         IN <<least>> \o Sorted(ids \ {least})

\* f"{audio_id}_{prov}.json" (line 119)
FileName(id, prov) == id \o <<"_", prov, ".json">>

\* Lines 116-122 and found_files.get(prov): the path when the file exists, else None.
FoundFile(disk, id, prov) ==
    IF FileName(id, prov) \in DOMAIN disk THEN JStr(FileName(id, prov)) ELSE None

RECURSIVE Pow10(_)
Pow10(k) == IF k = 0 THEN 1 ELSE 10 * Pow10(k - 1)

\* round(x, k): the nearest multiple of 10^-k, ties to even.
Round(x, k) ==
    LET num == Numer(x) * Pow10(k)
        q == num \div Denom(x)
        r == num % Denom(x)
        up == 2 * r > Denom(x) \/ (2 * r = Denom(x) /\ q % 2 = 1)
    IN JNum(IF up THEN q + 1 ELSE q, Pow10(k))

\* The difference with its sign.
SignedDiff(a, b) == Sub(a, b)

\* abs(a - b)
AbsDiff(a, b) ==
    LET d == Sub(a, b) IN IF d.n < 0 THEN JNum(-d.n, d.d) ELSE d

\* The similarity field as a fraction, not a percentage.
SimFieldUnscaled(x, y) ==
    IF x = None \/ y = None THEN JInt(0)
    ELSE LET sim == get_similarity(x.text, y.text)
         IN IF sim = Raised THEN Raised ELSE Round(sim, 2)

\* Lines 142-144: round(get_similarity(x["text"], y["text"]) * 100, 2) if x and y else 0
SimField(x, y) ==
    IF x = None \/ y = None THEN JInt(0)
    ELSE LET sim == get_similarity(x.text, y.text)
         IN IF sim = Raised THEN Raised ELSE Round(MulBy(sim, 100), 2)

\* Lines 148-154.
StartDiff(x, y) ==
    IF x = None \/ y = None THEN None
    ELSE Round(AbsDiff(x.start, y.start), 3)

\* Lines 136-138.
ConfField(x) == IF x = None THEN JInt(0) ELSE Round(x.confidence, 2)

\* Lines 142-144, the three pairs in the order of the code.
SimFields(d) ==
    [pair \in {<<OpenAI, Deepgram>>, <<OpenAI, AssemblyAI>>, <<Deepgram, AssemblyAI>>} |->
        SimField(d[pair[1]], d[pair[2]])]

\* Lines 148-154.
StartDiffs(d) ==
    [pair \in {<<OpenAI, Deepgram>>, <<Deepgram, AssemblyAI>>} |->
        StartDiff(d[pair[1]], d[pair[2]])]

\* Lines 132-138 and 157-158: the fields taken from one provider's transcript.
OwnFields(d) ==
    [p \in Providers |->
        IF d[p] = None
        THEN [words |-> 0, conf |-> JInt(0), speakers |-> 0]
        ELSE [words |-> d[p].word_count, conf |-> ConfField(d[p]),
              speakers |-> d[p].speakers]]

\* Lines 129-158; d holds d_oai, d_dg and d_aai.  Raised when a similarity
\* raises.  There is no column for OpenAI's speaker count.
BuildRow(audio_id, d) ==
    LET sims == SimFields(d)
        diffs == StartDiffs(d)
        own == OwnFields(d)
    IN IF \E pair \in DOMAIN sims : sims[pair] = Raised THEN Raised
       ELSE [Audio_ID |-> audio_id,
             OAI_Words |-> own[OpenAI].words,
             DG_Words |-> own[Deepgram].words,
             AAI_Words |-> own[AssemblyAI].words,
             OAI_Conf |-> own[OpenAI].conf,
             DG_Conf |-> own[Deepgram].conf,
             AAI_Conf |-> own[AssemblyAI].conf,
             Sim_OAI_vs_DG |-> sims[<<OpenAI, Deepgram>>],
             Sim_OAI_vs_AAI |-> sims[<<OpenAI, AssemblyAI>>],
             Sim_DG_vs_AAI |-> sims[<<Deepgram, AssemblyAI>>],
             Start_Diff_OAI_DG |-> diffs[<<OpenAI, Deepgram>>],
             Start_Diff_DG_AAI |-> diffs[<<Deepgram, AssemblyAI>>],
             DG_Speakers |-> own[Deepgram].speakers,
             AAI_Speakers |-> own[AssemblyAI].speakers]

\* The file-name word of each provider tag (lines 125-127).
SuffixOf(p) ==
    CASE p = OpenAI -> "openai"
      [] p = Deepgram -> "deepgram"
      [] p = AssemblyAI -> "assembly"

\* Lines 116-127: d_oai, d_dg and d_aai of one identifier.
LoadAll(disk, id) ==
    [p \in Providers |->
        normalize_data(load_json(disk, FoundFile(disk, id, SuffixOf(p))), p)]

(***************************************************************************)
(* The files of a batch run.                                               *)
(***************************************************************************)
\* A file that the glob finds and that names no provider.
StrayFile == <<"b", "_", "1", ".json">>

\* The Deepgram file of the identifier "1_openai".
SuffixInIdFile == FileName(<<"1", "_", "openai">>, "deepgram")

\* "1" may have a file of every provider, "10" and "2" of one.
CandidateFiles ==
    {FileName(<<"1">>, w) : w \in {"openai", "deepgram", "assembly"}}
    \cup {FileName(<<"1", "0">>, "deepgram"), FileName(<<"2">>, "openai"), StrayFile,
          SuffixInIdFile}

\* A response that carries text and words where each provider looks for them.
Both(text, l) ==
    JObj([text |-> text, words |-> JList(l),
          results |-> Nested(Alt(text, JList(l))).o.results])

BatchDocs ==
    {Both(Chars(<<"a", "b">>),
          <<Word(JInt(1), JInt(2), JNum(9, 10), JInt(0)),
            Word(JInt(2), JInt(3), JNum(1, 2), JInt(1))>>),
     Both(Chars(<<"b">>), <<Word(JNum(5, 4), JInt(2), Absent, Absent)>>),
     Both(JInt(5), <<Word(JInt(1), JInt(2), JNum(6173, 50000), Absent)>>),
     JList(<<JInt(1)>>)}

BatchContents == {InvalidJson} \cup {JsonFile(doc) : doc \in BatchDocs}

\* The contents a file may have.  The run never opens the stray file nor the
\* file of "1_openai" (no identifier it extracts builds their names), so one
\* content stands for all.
ContentsOf(name) ==
    IF name \in {StrayFile, SuffixInIdFile} THEN {InvalidJson} ELSE BatchContents

\* The folders a run may start from: at most MaxFiles of the candidate files.
Folders ==
    UNION {{disk \in [S -> BatchContents] : \A name \in S : disk[name] \in ContentsOf(name)} :
             S \in {T \in SUBSET CandidateFiles : Cardinality(T) <= MaxFiles}}

Init ==
    /\ pc = "start"
    /\ fs \in Folders
    /\ filepath = None
    /\ provider = OpenAI
    /\ raw = None
    /\ result = None
    /\ unique_ids = {}
    /\ loaded = NothingLoaded
    /\ todo = <<>>
    /\ all_rows = <<>>
    /\ csv = NotWritten
    /\ summary = None
    /\ text1 = None
    /\ text2 = None
    /\ ratio = None
    /\ DriverIdle
    /\ WrappersIdle

\* Lines 96-112: discovery of the files and of the identifiers; todo is the
\* iterator of line 114's `for audio_id in sorted(unique_ids)`.
Discover ==
    /\ pc = "start"
    /\ unique_ids' = UniqueIds(fs)
    /\ todo' = Sorted(UniqueIds(fs))
    /\ pc' = "loop"
    /\ UNCHANGED <<fs, filepath, provider, raw, result, loaded, all_rows, csv, summary>>
    /\ UNCHANGED <<simvars, drivervars, wrappervars>>

\* Lines 114-127: the loop takes the next identifier, finds its files, loads
\* and normalizes them.
LoadProviders ==
    /\ pc = "loop"
    /\ todo # <<>>
    /\ loaded' = LoadAll(fs, Head(todo))
    /\ pc' = "row"
    /\ UNCHANGED <<fs, filepath, provider, raw, result, unique_ids, todo, all_rows, csv, summary>>
    /\ UNCHANGED <<simvars, drivervars, wrappervars>>

\* Lines 129-160: the row is built and appended.  An exception that leaves the
\* loop body ends the script with a traceback.
EmitRow ==
    /\ pc = "row"
    /\ \E row \in {BuildRow(Head(todo), loaded)} :
          IF row = Raised
          THEN /\ pc' = "crashed"
               /\ UNCHANGED <<todo, all_rows>>
          ELSE /\ all_rows' = Append(all_rows, row)
               /\ todo' = Tail(todo)
               /\ pc' = "loop"
    /\ UNCHANGED <<fs, filepath, provider, raw, result, unique_ids, loaded, csv, summary>>
    /\ UNCHANGED <<simvars, drivervars, wrappervars>>

\* Lines 163-164: pd.DataFrame(all_rows).to_csv(OUTPUT_CSV).
WriteCsv ==
    /\ pc = "loop"
    /\ todo = <<>>
    /\ csv' = all_rows
    /\ pc' = "summary"
    /\ UNCHANGED <<fs, filepath, provider, raw, result, unique_ids, loaded, todo, all_rows, summary>>
    /\ UNCHANGED <<simvars, drivervars, wrappervars>>

NaN == [t |-> "nan"]

\* Series.mean(): the mean of the values that are not None, NaN when there is none.
ColumnMean(rows, col) ==
    LET idx == {i \in 1..Len(rows) : rows[i][col] # None}
        pick[n \in 0..Len(rows)] ==
            IF n = 0 THEN <<>>
            ELSE IF n \in idx THEN Append(pick[n - 1], rows[n][col]) ELSE pick[n - 1]
    IN IF idx = {} THEN NaN ELSE Mean(pick[Len(rows)])

\* Lines 166-170.  A DataFrame built from no rows has no columns, and
\* df['Sim_DG_vs_AAI'] raises KeyError.
Summary ==
    /\ pc = "summary"
    /\ IF all_rows = <<>>
       THEN /\ pc' = "crashed"
            /\ UNCHANGED summary
       ELSE /\ summary' = [sim |-> ColumnMean(all_rows, "Sim_DG_vs_AAI"),
                           diff |-> ColumnMean(all_rows, "Start_Diff_DG_AAI")]
            /\ pc' = "done"
    /\ UNCHANGED <<fs, filepath, provider, raw, result, unique_ids, loaded, todo, all_rows, csv>>
    /\ UNCHANGED <<simvars, drivervars, wrappervars>>

Next == Discover \/ LoadProviders \/ EmitRow \/ WriteCsv \/ Summary

Spec == Init /\ [][Next]_vars

(***************************************************************************)
(* The batch drivers, general.py and spanish.py.  A file name is a         *)
(* sequence of symbols whose last symbol is the extension.                 *)
(***************************************************************************)
MaxAudio == 2

Scripts == {"general", "spanish"}

\* f.endswith(('.mp3', '.wav', '.m4a')) (general.py line 111, spanish.py line 106)
IsAudio(name) == name # <<>> /\ name[Len(name)] \in {".mp3", ".wav", ".m4a"}

\* files = [...]; files.sort()
AudioFiles(names) == Sorted({name \in names : IsAudio(name)})

\* os.path.splitext(filename)[0]
BaseName(filename) == SubSeq(filename, 1, Len(filename) - 1)

\* save_json's safe_name: f"{base_name}_{suffix}.json"
SafeName(filename, suffix) == FileName(BaseName(filename), suffix)

\* save_json(data, filename, suffix) on the log of the writes; nothing is
\* written when `not data`.
save_json(written, data, filename, suffix) ==
    IF ~Truthy(data) THEN written
    ELSE Append(written, [name |-> SafeName(filename, suffix), data |-> data])

\* What requests.post(...) does: it raises, or it returns a response with a
\* status code and a body that is JSON or not.
ConnectionFailed == [k |-> "exception"]
Response(code, content) == [k |-> "response", status_code |-> code, body |-> content]

\* get_openai_data, get_deepgram_data and get_assembly_data: response.json()
\* on status 200, None on any exception (the one of response.json() included)
\* and on any other status.
PostedJson(resp) ==
    IF resp.k = "exception" THEN None
    ELSE IF resp.status_code # 200 THEN None
    ELSE IF resp.body.k = "invalid" THEN None
    ELSE resp.body.doc

get_openai_data(resp) == PostedJson(resp)
get_deepgram_data(resp) == PostedJson(resp)
get_assembly_data(resp) == PostedJson(resp)

\* `if not openai_data: continue`
SkipsOnNone(data) == data = None
Skips(data) == ~Truthy(data)

\* str.lower() on the characters the model uses.
LowerChar(c) ==
    CASE c = "A" -> "a"
      [] c = "T" -> "t"
      [] OTHER -> c
Lower(str) == [k \in DOMAIN str |-> LowerChar(str[k])]

\* text[:50]
SampleLen == 50
Sample(str) == SubSeq(str, 1, IF Len(str) < SampleLen THEN Len(str) ELSE SampleLen)

\* general.py line 130 raises when "text" holds no string or the data is no
\* object.
SampleRaises(data) == Get(data, "text", JStr(<<>>)).t # "str"

\* general.py lines 130-132, where line 130 does not raise.
DetectLanguage(data) ==
    LET text_sample == Lower(Sample(Get(data, "text", JStr(<<>>)).s))
    IN IF Contains(text_sample, <<" ", "t", "h", "e", " ">>)
          \/ Contains(text_sample, <<" ", "a", "n", "d", " ">>)
       THEN "en" ELSE "es"

\* v[key] on a dict; KeyError and TypeError are Raised.
Item(v, key) ==
    IF v.t = "obj"
    THEN IF key \in DOMAIN v.o THEN v.o[key] ELSE Raised
    ELSE Raised

\* a * b
Times(a, b) ==
    IF IsNumber(a) /\ IsNumber(b)
    THEN JNum(Numer(a) * Numer(b), Denom(a) * Denom(b))
    ELSE Raised

\* round(x, k); TypeError unless x is a number.
PyRound(x, k) == IF IsNumber(x) THEN Round(x, k) ELSE Raised

PRICE_OPENAI == JNum(6, 1000)
PRICE_DEEPGRAM == JNum(43, 10000)
PRICE_ASSEMBLY == JNum(61, 10000)

\* round((duration/60)*PRICE, 5)
Cost(duration, price) == PyRound(Times(DivBy(duration, 60), price), 5)

YesNo(flag) == IF flag THEN "Yes" ELSE "No"

\* The Deepgram columns (general.py lines 167-168 and 178-183, spanish.py
\* lines 154-155 and 165-169): the try/except keeps the defaults.
DeepgramMetrics(prog, data) ==
    LET results == Item(data, "results")
        res == Index0(Item(Index0(Item(results, "channels")), "alternatives"))
        conf == PyRound(MulBy(Item(res, "confidence"), 100), 2)
    IN IF ~Truthy(data) \/ conf = Raised
       THEN [conf |-> JInt(0), sentiment |-> "No"]
       ELSE [conf |-> conf,
             sentiment |-> YesNo(prog = "general" /\ "sentiments" \in DOMAIN results.o)]

\* sum(w["confidence"] for w in words) / len(words) for truthy words: Raised
\* unless words is a list of objects with numeric confidences.
AverageConfidence(words) ==
    IF words.t # "list" THEN Raised
    ELSE Mean([k \in DOMAIN words.l |-> Item(words.l[k], "confidence")])

\* The AssemblyAI columns (general.py lines 172-173 and 186-192, spanish.py
\* lines 159-160 and 172-176): nothing catches what the extraction raises.
AssemblyMetrics(prog, data) ==
    IF ~Truthy(data) THEN [conf |-> JInt(0), sentiment |-> "No"]
    ELSE LET words == Get(data, "words", JList(<<>>))
             avg == IF Truthy(words) THEN AverageConfidence(words) ELSE None
             conf == IF avg = None THEN JInt(0) ELSE PyRound(MulBy(avg, 100), 2)
         IN IF words = Raised \/ conf = Raised THEN Raised
            ELSE [conf |-> conf,
                  sentiment |-> YesNo(prog = "general"
                                      /\ Truthy(Get(data, "sentiment_analysis_results", None)))]

\* The row of one file (general.py lines 154-192, spanish.py lines 141-176);
\* Raised when building it raises.
DriverRow(prog, filename, lang, oai, dg, aai) ==
    LET duration == Get(oai, "audio_duration", JInt(0))
        oai_conf == PyRound(MulBy(Get(oai, "confidence", JInt(0)), 100), 2)
        dgm == DeepgramMetrics(prog, dg)
        aaim == AssemblyMetrics(prog, aai)
    IN IF \/ ~IsNumber(duration)
          \/ oai_conf = Raised
          \/ aaim = Raised
       THEN Raised
       ELSE [Filename |-> filename,
             Language |-> IF prog = "general" THEN lang ELSE "es",
             Duration_s |-> PyRound(duration, 2),
             OAI_Confidence |-> oai_conf,
             OAI_Sentiment |-> YesNo(Truthy(Get(oai, "sentiment_analysis_results", None))),
             OAI_Cost |-> Cost(duration, PRICE_OPENAI),
             DG_Confidence |-> dgm.conf,
             DG_Sentiment |-> dgm.sentiment,
             DG_Cost |-> Cost(duration, PRICE_DEEPGRAM),
             AAI_Confidence |-> aaim.conf,
             AAI_Sentiment |-> aaim.sentiment,
             AAI_Cost |-> Cost(duration, PRICE_ASSEMBLY)]

\* pd.DataFrame(full_results).to_csv(OUTPUT_CSV): the file holds every row of
\* full_results, in order.
to_csv_last(rows) == <<rows[Len(rows)]>>
to_csv(rows) == rows

\* The input folder: at most MaxAudio of three audio files, and a file that
\* is no audio.  No two names differ in the extension only.
AudioNames == {<<"1", ".mp3">>, <<"1", "0", ".wav">>, <<"2", ".m4a">>}
OtherNames == {<<"3", ".txt">>}
NoFolder == [found |-> FALSE, names |-> {}]
Listings ==
    {NoFolder} \cup
    {[found |-> TRUE, names |-> audio \cup OtherNames] :
        audio \in {s \in SUBSET AudioNames : Cardinality(s) <= MaxAudio}}

\* " the " sits in the first 50 characters of EnglishText and after them in
\* LateEnglishText.
EnglishText == <<"A", " ", "T", "h", "e", " ", "b">>
LateEnglishText == [k \in 1..48 |-> "x"] \o <<" ", "t", "h", "e", " ">>

EnglishDoc ==
    MkObj([text |-> JStr(EnglishText),
           audio_duration |-> JInt(60),
           confidence |-> JNum(9, 10),
           sentiment_analysis_results |-> JList(<<JStr(<<"a">>)>>)])
LateEnglishDoc ==
    MkObj([text |-> JStr(LateEnglishText),
           audio_duration |-> JInt(7),
           confidence |-> Absent,
           sentiment_analysis_results |-> Absent])

Json200(doc) == Response(200, JsonFile(doc))

OpenAIResponses ==
    {ConnectionFailed, Response(500, JsonFile(EnglishDoc)), Response(200, InvalidJson),
     Json200(EmptyObj), Json200(EnglishDoc), Json200(LateEnglishDoc)}

DeepgramDoc(conf, sentiments) ==
    MkObj([results |->
             MkObj([channels |->
                      JList(<<MkObj([alternatives |->
                                       JList(<<MkObj([confidence |-> conf])>>)])>>),
                    sentiments |-> sentiments])])

DeepgramResponses ==
    {ConnectionFailed, Response(404, InvalidJson),
     Json200(DeepgramDoc(JNum(4, 5), EmptyObj)),
     Json200(DeepgramDoc(Absent, EmptyObj))}

AssemblyDoc(confs, sentiments) ==
    MkObj([words |-> JList([k \in DOMAIN confs |-> MkObj([text |-> JStr(<<"a">>),
                                                           confidence |-> confs[k]])]),
           sentiment_analysis_results |-> sentiments])

AssemblyResponses ==
    {ConnectionFailed, Response(500, InvalidJson), Json200(EmptyObj),
     Json200(AssemblyDoc(<<JNum(1, 2), JInt(1)>>, JList(<<JStr(<<"a">>)>>))),
     Json200(AssemblyDoc(<<>>, Absent)),
     Json200(AssemblyDoc(<<JNum(1, 2), Absent>>, Absent))}

DriverInit ==
    /\ pc = "list"
    /\ script \in Scripts
    /\ listing \in Listings
    /\ files = <<>>
    /\ index = 0
    /\ detected_lang = "es"
    /\ openai_data = None
    /\ deepgram_data = None
    /\ assembly_data = None
    /\ full_results = <<>>
    /\ saved = <<>>
    /\ requests = <<>>
    /\ csv = NotWritten
    /\ WrappersIdle
    /\ text1 = None
    /\ text2 = None
    /\ ratio = None
    /\ fs = <<>>
    /\ filepath = None
    /\ provider = OpenAI
    /\ raw = None
    /\ result = None
    /\ unique_ids = {}
    /\ loaded = NothingLoaded
    /\ todo = <<>>
    /\ all_rows = <<>>
    /\ summary = None

\* What the drivers never touch.
DriverFrame ==
    UNCHANGED <<fs, filepath, provider, raw, result, unique_ids, loaded, todo, all_rows, summary,
                script, listing, simvars, wrappervars>>

\* The request the loop's current file is sent with, and what it yielded.
Request(prov, lang, data) ==
    [provider |-> prov, file |-> files[index], lang |-> lang, data |-> data]

\* general.py lines 111-112; spanish.py lines 102-107, which exits when the
\* folder is missing where general.py lets os.listdir raise.
ListFiles ==
    /\ pc = "list"
    /\ IF listing.found
       THEN /\ files' = AudioFiles(listing.names)
            /\ index' = 1
            /\ pc' = "openai"
       ELSE /\ pc' = IF script = "spanish" THEN "done" ELSE "crashed"
            /\ UNCHANGED <<files, index>>
    /\ UNCHANGED <<detected_lang, openai_data, deepgram_data, assembly_data, full_results, saved,
                   requests, csv>>
    /\ DriverFrame

\* general.py lines 114-133, spanish.py lines 109-119: the OpenAI request of
\* the next file, the gate, the save and the language.
CallOpenAI ==
    /\ pc = "openai"
    /\ index <= Len(files)
    /\ \E resp \in OpenAIResponses :
          LET data == get_openai_data(resp)
              stops == script = "general" /\ SampleRaises(data)
          IN /\ openai_data' = data
             /\ requests' = Append(requests,
                                   Request(OpenAI, IF script = "general" THEN "auto" ELSE "es",
                                           data))
             /\ IF Skips(data)
                THEN /\ index' = index + 1
                     /\ pc' = "openai"
                     /\ UNCHANGED <<saved, detected_lang>>
                ELSE /\ saved' = save_json(saved, data, files[index], SuffixOf(OpenAI))
                     /\ index' = index
                     /\ pc' = IF stops THEN "crashed" ELSE "deepgram"
                     /\ detected_lang' = IF script = "general" /\ ~stops
                                         THEN DetectLanguage(data)
                                         ELSE detected_lang
    /\ UNCHANGED <<files, deepgram_data, assembly_data, full_results, csv>>
    /\ DriverFrame

\* general.py lines 135-142, spanish.py lines 122-129.
CallDeepgram ==
    /\ pc = "deepgram"
    /\ \E resp \in DeepgramResponses :
          LET data == get_deepgram_data(resp)
          IN /\ deepgram_data' = data
             /\ requests' = Append(requests, Request(Deepgram, detected_lang, data))
             /\ saved' = IF Truthy(data)
                         THEN save_json(saved, data, files[index], SuffixOf(Deepgram))
                         ELSE saved
    /\ pc' = "assembly"
    /\ UNCHANGED <<files, index, detected_lang, openai_data, assembly_data, full_results, csv>>
    /\ DriverFrame

\* general.py lines 144-151, spanish.py lines 131-138.
CallAssembly ==
    /\ pc = "assembly"
    /\ \E resp \in AssemblyResponses :
          LET data == get_assembly_data(resp)
          IN /\ assembly_data' = data
             /\ requests' = Append(requests, Request(AssemblyAI, detected_lang, data))
             /\ saved' = IF Truthy(data)
                         THEN save_json(saved, data, files[index], SuffixOf(AssemblyAI))
                         ELSE saved
    /\ pc' = "row"
    /\ UNCHANGED <<files, index, detected_lang, openai_data, deepgram_data, full_results, csv>>
    /\ DriverFrame

\* general.py lines 153-194, spanish.py lines 140-178: the row is built and
\* appended, or the script stops on what building it raises.
AppendRow ==
    /\ pc = "row"
    /\ \E row \in {DriverRow(script, files[index], detected_lang,
                             openai_data, deepgram_data, assembly_data)} :
          IF row = Raised
          THEN /\ pc' = "crashed"
               /\ UNCHANGED full_results
          ELSE /\ full_results' = Append(full_results, row)
               /\ pc' = "save"
    /\ UNCHANGED <<files, index, detected_lang, openai_data, deepgram_data, assembly_data, saved,
                   requests, csv>>
    /\ DriverFrame

\* general.py lines 196-197, spanish.py lines 180-181, and the loop's step to
\* the next file.
SaveContinuously ==
    /\ pc = "save"
    /\ csv' = to_csv(full_results)
    /\ index' = index + 1
    /\ pc' = "openai"
    /\ UNCHANGED <<files, detected_lang, openai_data, deepgram_data, assembly_data, full_results,
                   saved, requests>>
    /\ DriverFrame

\* The loop ends (general.py line 199, spanish.py line 183).
Finish ==
    /\ pc = "openai"
    /\ index > Len(files)
    /\ pc' = "done"
    /\ UNCHANGED <<files, index, detected_lang, openai_data, deepgram_data, assembly_data,
                   full_results, saved, requests, csv>>
    /\ DriverFrame

DriverNext ==
    ListFiles \/ CallOpenAI \/ CallDeepgram \/ CallAssembly \/ AppendRow \/ SaveContinuously
    \/ Finish

DriverSpec == DriverInit /\ [][DriverNext]_vars

(***************************************************************************)
(* The /transcribe handlers of the OpenAI and AssemblyAI wrappers.  Each   *)
(* request runs its handler step by step; the steps of different requests  *)
(* interleave.  NamedTemporaryFile gives every request a name of its own:  *)
(* the number of the request.                                              *)
(***************************************************************************)
MaxRequests == 2

\* transcribe_audio of api_transcripcion_openai.py, transcribe_audio and
\* transcribe_audio_text_only of api_transcripcion_assemblyai.py.
Endpoints == {"openai", "assembly", "assembly_text"}

\* No temporary file, no path.
NoPath == 0

\* A request as it arrives: its endpoint, and whether the extension of the
\* upload is one of allowed_extensions.
Arrival(endpoint, allowed) ==
    [endpoint |-> endpoint, allowed |-> allowed, pc |-> "start", created |-> NoPath,
     temp_path |-> NoPath, status |-> 0]

WrapperInit ==
    /\ handlers \in [1..MaxRequests -> {Arrival(e, a) : e \in Endpoints, a \in BOOLEAN}]
    /\ tempdir = {}
    /\ pc = "serving"
    /\ DriverIdle
    /\ text1 = None
    /\ text2 = None
    /\ ratio = None
    /\ fs = <<>>
    /\ filepath = None
    /\ provider = OpenAI
    /\ raw = None
    /\ result = None
    /\ unique_ids = {}
    /\ loaded = NothingLoaded
    /\ todo = <<>>
    /\ all_rows = <<>>
    /\ csv = NotWritten
    /\ summary = None

\* What the handlers never touch.
WrapperFrame ==
    UNCHANGED <<pc, fs, filepath, provider, raw, result, unique_ids, loaded, todo, all_rows, csv,
                summary, simvars, drivervars>>

\* The handler of request r moves on.
Step(r, changes) == handlers' = [handlers EXCEPT ![r] = changes @@ handlers[r]]

\* api_transcripcion_assemblyai.py lines 72-80: /transcribe refuses an
\* extension that is not allowed, before anything is read or created.  The
\* OpenAI handler first creates the temporary file (line 70), the AssemblyAI
\* handlers first read the upload (lines 84 and 191).
Validate(r) ==
    /\ handlers[r].pc = "start"
    /\ IF handlers[r].endpoint = "assembly" /\ ~handlers[r].allowed
       THEN Step(r, [pc |-> "raised", status |-> 400])
       ELSE Step(r, [pc |-> IF handlers[r].endpoint = "openai" THEN "create" ELSE "read"])
    /\ UNCHANGED tempdir
    /\ WrapperFrame

\* tempfile.NamedTemporaryFile(delete=False, ...): the file exists from here
\* on and closing it does not remove it.
CreateTemp(r) ==
    /\ handlers[r].pc = "create"
    /\ tempdir' = tempdir \cup {r}
    /\ Step(r, [pc |-> IF handlers[r].endpoint = "openai" THEN "read" ELSE "write",
                created |-> r])
    /\ WrapperFrame

\* await file.read().  In the OpenAI handler (line 71) it runs inside the
\* `with` and outside every try: what it raises leaves the handler.  In the
\* AssemblyAI handlers (lines 84 and 191) it runs before the file is created
\* and the outer except turns what it raises into HTTPException(500).
ReadUpload(r) ==
    /\ handlers[r].pc = "read"
    /\ \E ok \in BOOLEAN :
          IF ok
          THEN Step(r, [pc |-> IF handlers[r].endpoint = "openai" THEN "write" ELSE "create"])
          ELSE Step(r, [pc |-> "raised", status |-> 500])
    /\ UNCHANGED tempdir
    /\ WrapperFrame

\* temp_file.write(...) and the assignment of the path (OpenAI lines 72-73,
\* AssemblyAI lines 88-89 and 196-197).  A write that raises leaves the
\* handler before the try whose finally removes the file.
WriteTemp(r) ==
    /\ handlers[r].pc = "write"
    /\ \E ok \in BOOLEAN :
          IF ok
          THEN Step(r, [pc |-> "transcribe", temp_path |-> handlers[r].created])
          ELSE Step(r, [pc |-> "raised", status |-> 500])
    /\ UNCHANGED tempdir
    /\ WrapperFrame

\* os.path.exists(path) and os.unlink(path) of the finally blocks.
Unlinked(dir, path) == IF path \in dir THEN dir \ {path} ELSE dir

\* The try block with the vendor SDK and its finally (OpenAI lines 75-143,
\* AssemblyAI lines 91-161 and 199-219): the response is returned or the
\* failure becomes HTTPException(500), and the file is unlinked either way.
Transcribe(r) ==
    /\ handlers[r].pc = "transcribe"
    /\ \E ok \in BOOLEAN :
          IF ok
          THEN Step(r, [pc |-> "returned", status |-> 200])
          ELSE Step(r, [pc |-> "raised", status |-> 500])
    /\ tempdir' = Unlinked(tempdir, handlers[r].temp_path)
    /\ WrapperFrame

WrapperNext ==
    \E r \in 1..MaxRequests :
        Validate(r) \/ CreateTemp(r) \/ ReadUpload(r) \/ WriteTemp(r) \/ Transcribe(r)

WrapperSpec == WrapperInit /\ [][WrapperNext]_vars

(***************************************************************************)
(* Properties of one call (specification CallSpec).                        *)
(***************************************************************************)
\* What the response holds where the provider's word list is looked up.
ResponseWords(data, prov) ==
    LET holder == IF prov = Deepgram THEN DeepgramAlt(data) ELSE data
    IN IF holder.t = "obj" /\ "words" \in DOMAIN holder.o
       THEN holder.o.words
       ELSE JList(<<>>)

\* The entries of the word list; "" and {} hold none.
Entries(w) == IF w.t = "list" THEN w.l ELSE <<>>

Returned == pc = "returned" /\ result # None

NormKeys == {"text", "start", "end", "duration", "confidence", "speakers", "word_count"}

WellFormed(r) ==
    /\ DOMAIN r = NormKeys
    /\ IsNumber(r.start) /\ IsNumber(r.end) /\ IsNumber(r.duration)
    /\ IsNumber(r.confidence)
    /\ r.speakers \in Nat
    /\ r.word_count \in Nat

\* A key of a word that is present with a value that is no number.
BadNumber(word, key) == word.t = "obj" /\ key \in DOMAIN word.o /\ ~IsNumber(word.o[key])

\* Responses on which the extraction meets an error: no object where one is
\* needed, a word list that is null or of a wrong type, an entry that is no
\* object, a timestamp or a confidence that is null or of a wrong type.
Malformed(data, prov) ==
    \/ data.t # "obj"
    \/ prov = Deepgram /\ DeepgramAlt(data).t # "obj"
    \/ LET w == ResponseWords(data, prov)
       IN \/ w.t \in {"null", "num", "bool"}
          \/ w.t = "str" /\ w.s # <<>>
          \/ w.t = "obj" /\ DOMAIN w.o # {}
          \/ /\ w.t = "list"
             /\ w.l # <<>>
             /\ \/ \E i \in 1..Len(w.l) : w.l[i].t # "obj"
                \/ BadNumber(w.l[1], "start")
                \/ BadNumber(w.l[Len(w.l)], "end")
                \/ \E i \in 1..Len(w.l) : BadNumber(w.l[i], "confidence")

\* C1: normalize_data never raises.  Whatever JSON value the raw response is,
\* and for each provider, it returns None or a complete record with numeric
\* fields, and it returns None whenever the extraction meets an error.
C1_NeverRaises ==
    pc = "returned" =>
        /\ result = None \/ WellFormed(result)
        /\ Malformed(raw, provider) => result = None

C1_Witness ==
    /\ pc = "returned"
    /\ provider = AssemblyAI
    /\ raw.t = "obj"
    /\ ResponseWords(raw, provider).t = "list"
    /\ Malformed(raw, provider)
    /\ result = None

LoadFails ==
    IF filepath = None THEN TRUE
    ELSE filepath.s \notin DOMAIN fs \/ fs[filepath.s].k # "json"

\* C2: a record is only built from a response that is not null.  load_json of a
\* path that is None, of a missing file, of an unreadable file and of a file
\* that is not JSON returns None, and normalize_data(None, provider) is None.
C2_NoRecordWithoutResponse ==
    /\ (pc \in {"normalize", "returned"} /\ LoadFails) => raw = None
    /\ (pc = "returned" /\ raw = None) => result = None

C2_Witness ==
    /\ pc = "returned"
    /\ filepath = None
    /\ raw = None
    /\ result = None

\* C6: a record's word_count is the number of entries of the provider's word
\* list.
C6_WordCount ==
    Returned => result.word_count = Len(Entries(ResponseWords(raw, provider)))

C6_Witness ==
    /\ Returned
    /\ provider = Deepgram
    /\ result.word_count = 2

\* The milliseconds or seconds that make one second of a provider's timestamps.
PerSecond(prov) == IF prov = AssemblyAI THEN 1000 ELSE 1

\* sec seconds is the instant of timestamp ts of the provider.
SameInstant(sec, ts, prov) ==
    /\ IsNumber(sec)
    /\ IsNumber(ts)
    /\ Numer(sec) * Denom(ts) * PerSecond(prov) = Numer(ts) * Denom(sec)

\* C7: in every record, start is the start timestamp of the first word and end
\* the end timestamp of the last word, in seconds (a word without the key counts
\* as 0); both are 0 when the word list is empty or absent.
C7_FirstStartLastEnd ==
    Returned =>
        LET l == Entries(ResponseWords(raw, provider))
        IN IF l = <<>>
           THEN result.start = JInt(0) /\ result.end = JInt(0)
           ELSE /\ SameInstant(result.start, Get(l[1], "start", JInt(0)), provider)
                /\ SameInstant(result.end, Get(l[Len(l)], "end", JInt(0)), provider)

C7_Witness ==
    /\ Returned
    /\ provider = OpenAI
    /\ LET l == Entries(ResponseWords(raw, provider))
       IN /\ Len(l) = 2
          /\ Get(l[1], "end", JInt(0)) # Get(l[2], "end", JInt(0))
          /\ result.start = JInt(1500)
          /\ result.end = JInt(2000)

\* C8: in every record, duration is end minus start, not clamped: it is negative
\* when the last word ends before the first one starts.
C8_DurationIsEndMinusStart ==
    Returned =>
        LET st == result.start
            en == result.end
            du == result.duration
        IN /\ Numer(du) * Denom(en) * Denom(st)
                = (Numer(en) * Denom(st) - Numer(st) * Denom(en)) * Denom(du)
           /\ (Numer(en) * Denom(st) < Numer(st) * Denom(en)) => Numer(du) < 0

C8_Witness ==
    /\ Returned
    /\ result.start = JInt(3000)
    /\ result.end = JInt(2000)
    /\ result.duration = JInt(-1000)

\* C9: AssemblyAI's timestamps are milliseconds, and start and end are the
\* first start and the last end divided by 1000 (1000 and 2000 give 1 and 2);
\* OpenAI's and Deepgram's are taken as they are.
C9_MillisecondsForAssembly ==
    Returned =>
        LET l == Entries(ResponseWords(raw, provider))
            st == Get(l[1], "start", JInt(0))
            en == Get(l[Len(l)], "end", JInt(0))
        IN l # <<>> =>
            IF provider = AssemblyAI
            THEN /\ result.start = JNum(Numer(st), 1000 * Denom(st))
                 /\ result.end = JNum(Numer(en), 1000 * Denom(en))
                 /\ (st = JInt(1000) /\ en = JInt(2000)) =>
                        (result.start = JInt(1) /\ result.end = JInt(2))
            ELSE result.start = st /\ result.end = en

C9_Witness ==
    /\ Returned
    /\ provider = AssemblyAI
    /\ Entries(ResponseWords(raw, provider))
         = <<Word(JInt(1000), JInt(2000), JNum(9, 10), Absent)>>
    /\ result.start = JInt(1)
    /\ result.end = JInt(2)

\* C10: a record for OpenAI has speakers = 1, with or without words and
\* whatever speaker fields the words carry.
C10_OpenAISpeakersIsOne ==
    (Returned /\ provider = OpenAI) => result.speakers = 1

C10_Witness ==
    /\ Returned
    /\ provider = OpenAI
    /\ result.speakers = 1
    /\ LET l == Entries(ResponseWords(raw, provider))
       IN /\ Len(l) = 2
          /\ Get(l[1], "speaker", None) = JInt(0)
          /\ Get(l[2], "speaker", None) = JInt(1)

\* The speaker values of the words that are not null.
NonNullLabels(l) == {Get(l[i], "speaker", None) : i \in 1..Len(l)} \ {None}

Diarizing == provider \in {Deepgram, AssemblyAI}

\* C11: for Deepgram and AssemblyAI the speakers of a record is the number of
\* distinct speaker values of the words that are not null; a word whose speaker
\* is null or absent contributes no label.
C11_DistinctNonNullSpeakers ==
    (Returned /\ Diarizing) =>
        LET labels == NonNullLabels(Entries(ResponseWords(raw, provider)))
        IN labels # {} => result.speakers = Cardinality(labels)

\* C12: for Deepgram and AssemblyAI a response none of whose words carries a
\* speaker label gives speakers = 1, and every record has speakers >= 1.
C12_SpeakersAtLeastOne ==
    Returned =>
        /\ result.speakers >= 1
        /\ (Diarizing /\ NonNullLabels(Entries(ResponseWords(raw, provider))) = {})
              => result.speakers = 1

\* The confidence a word counts with.
WordConf(word, prov) == Get(word, "confidence", IF prov = OpenAI THEN JInt(1) ELSE JInt(0))

InUnit(x) == IsNumber(x) /\ 0 <= Numer(x) /\ Numer(x) <= Denom(x)

Ended == pc \in {"summary", "done", "crashed"}

RowIds(rows) == [i \in 1..Len(rows) |-> rows[i].Audio_ID]

\* The provider has no usable file for the identifier.
NoTranscript(disk, id, p) ==
    LET name == FileName(id, SuffixOf(p))
    IN \/ name \notin DOMAIN disk
       \/ disk[name].k # "json"
       \/ disk[name].doc.t # "obj"

RowWords(row, p) ==
    CASE p = OpenAI -> row.OAI_Words
      [] p = Deepgram -> row.DG_Words
      [] p = AssemblyAI -> row.AAI_Words

RowConf(row, p) ==
    CASE p = OpenAI -> row.OAI_Conf
      [] p = Deepgram -> row.DG_Conf
      [] p = AssemblyAI -> row.AAI_Conf

\* The rows appended so far are those of the identifiers visited so far, in
\* sorted order.
RowsFollowSortedIds ==
    pc \in {"loop", "row", "summary", "done", "crashed"} =>
        RowIds(all_rows) \o todo = Sorted(UniqueIds(fs))

\* C3: no error aborts the batch.  Whatever the provider files hold, when the
\* run has ended there is a row for every discovered identifier, and a provider
\* without a usable file has its fields of that row at their defaults.
C3_NoErrorAbortsBatch ==
    Ended =>
        /\ Len(all_rows) = Cardinality(UniqueIds(fs))
        /\ \A i \in 1..Len(all_rows) : \A p \in Providers :
              NoTranscript(fs, all_rows[i].Audio_ID, p) =>
                  (RowWords(all_rows[i], p) = 0 /\ RowConf(all_rows[i], p) = JInt(0))

\* C4: the run emits exactly one row for each identifier extracted from the
\* discovered files, none twice, in ascending order of identifier.
C4_OneRowPerIdentifier ==
    Ended =>
        /\ {all_rows[i].Audio_ID : i \in 1..Len(all_rows)} = UniqueIds(fs)
        /\ \A i, j \in 1..Len(all_rows) :
              i < j => StrLess(all_rows[i].Audio_ID, all_rows[j].Audio_ID)

\* C5: every run reaches its end: it writes the table and prints the summary,
\* also when no identifier is discovered, and never stops on an error.
C5_RunReachesEnd ==
    /\ pc # "crashed"
    /\ pc = "done" => (csv = all_rows /\ summary # None)

\* r is a number with lo <= r <= hi.
Within(r, lo, hi) ==
    /\ r.t = "num"
    /\ lo * r.d <= r.n
    /\ r.n <= hi * r.d

\* f is the multiple of 10^-k nearest to num/den.
Nearest(f, num, den, k) ==
    /\ f.t = "num"
    /\ Pow10(k) % f.d = 0
    /\ 2 * Pow10(k) * Abs(f.n * den - num * f.d) <= f.d * den

\* The transcripts the row of an identifier is built from.
Transcripts(row) == LoadAll(fs, row.Audio_ID)

RowSpeakers(row, p) ==
    CASE p = Deepgram -> row.DG_Speakers
      [] p = AssemblyAI -> row.AAI_Speakers

\* The word count and the confidence of provider p in the row are those of the
\* transcript t, or 0 when there is none.
OwnMetrics(row, p, t) ==
    IF t = None
    THEN RowWords(row, p) = 0 /\ RowConf(row, p) = JInt(0)
    ELSE /\ RowWords(row, p) = t.word_count
         /\ Nearest(RowConf(row, p), Numer(t.confidence), Denom(t.confidence), 2)

\* The speaker count of provider p in the row.
OwnSpeakers(row, p, t) ==
    RowSpeakers(row, p) = (IF t = None THEN 0 ELSE t.speakers)

\* Every row holds each provider's word count and confidence, and Deepgram's
\* and AssemblyAI's speaker counts, taken from the provider's own transcript,
\* or 0 where the transcript is absent.
RowMetricsOfExistingColumns ==
    \A i \in 1..Len(all_rows) :
        LET row == all_rows[i]
            d == Transcripts(row)
        IN /\ \A p \in Providers : OwnMetrics(row, p, d[p])
           /\ \A p \in {Deepgram, AssemblyAI} : OwnSpeakers(row, p, d[p])

\* C18: in every row a provider whose transcript is absent has word count 0,
\* confidence 0 and speaker count 0, and a provider that is present has its
\* word count, its confidence rounded to 2 decimals and its speaker count.
C18_AbsentProviderDefaults ==
    \A i \in 1..Len(all_rows) :
        LET row == all_rows[i]
            d == Transcripts(row)
        IN /\ \A p \in Providers : OwnMetrics(row, p, d[p])
           /\ \A p \in {Deepgram, AssemblyAI} : OwnSpeakers(row, p, d[p])
           /\ "OAI_Speakers" \in DOMAIN row
           /\ row["OAI_Speakers"] = (IF d[OpenAI] = None THEN 0 ELSE d[OpenAI].speakers)

SimPairs == {<<OpenAI, Deepgram>>, <<OpenAI, AssemblyAI>>, <<Deepgram, AssemblyAI>>}

RowSim(row, pair) ==
    CASE pair = <<OpenAI, Deepgram>> -> row.Sim_OAI_vs_DG
      [] pair = <<OpenAI, AssemblyAI>> -> row.Sim_OAI_vs_AAI
      [] pair = <<Deepgram, AssemblyAI>> -> row.Sim_DG_vs_AAI

\* C19: each of the three similarity fields of a row is 0 when a transcript of
\* its pair is absent, and otherwise 100 times get_similarity of the two texts
\* rounded to 2 decimals, a value within 0..100.
C19_SimilarityFields ==
    \A i \in 1..Len(all_rows) :
        LET row == all_rows[i]
            d == Transcripts(row)
        IN \A pair \in SimPairs :
              LET x == d[pair[1]]
                  y == d[pair[2]]
                  f == RowSim(row, pair)
              IN IF x = None \/ y = None THEN f = JInt(0)
                 ELSE LET sim == get_similarity(x.text, y.text)
                      IN /\ Nearest(f, 100 * sim.n, sim.d, 2)
                         /\ Within(f, 0, 100)

C19_Witness ==
    /\ Len(all_rows) = 1
    /\ LET d == Transcripts(all_rows[1])
       IN /\ d[OpenAI] # None /\ d[Deepgram] # None /\ d[AssemblyAI] = None
          /\ d[OpenAI].text = JStr(<<"a", "b">>)
          /\ d[Deepgram].text = JStr(<<"b">>)
    /\ all_rows[1].Sim_OAI_vs_DG = JNum(6667, 100)
    /\ all_rows[1].Sim_OAI_vs_AAI = JInt(0)

DiffPairs == {<<OpenAI, Deepgram>>, <<Deepgram, AssemblyAI>>}

RowDiff(row, pair) ==
    CASE pair = <<OpenAI, Deepgram>> -> row.Start_Diff_OAI_DG
      [] pair = <<Deepgram, AssemblyAI>> -> row.Start_Diff_DG_AAI

\* C20: each of the two start-time delta fields of a row is None exactly when a
\* transcript of its pair is absent, and otherwise the absolute difference of
\* the two start times rounded to 3 decimals: never negative, and the same
\* whichever of the two is subtracted from the other.
C20_StartDeltas ==
    \A i \in 1..Len(all_rows) :
        LET row == all_rows[i]
            d == Transcripts(row)
        IN \A pair \in DiffPairs :
              LET x == d[pair[1]]
                  y == d[pair[2]]
                  f == RowDiff(row, pair)
              IN IF x = None \/ y = None THEN f = None
                 ELSE LET a == x.start
                          b == y.start
                          ab == Numer(a) * Denom(b) - Numer(b) * Denom(a)
                      IN /\ f # None
                         /\ f.n >= 0
                         /\ Nearest(f, Abs(ab), Denom(a) * Denom(b), 3)
                         /\ Nearest(f, Abs(-ab), Denom(b) * Denom(a), 3)

C20_Witness ==
    /\ Len(all_rows) = 1
    /\ LET d == Transcripts(all_rows[1])
       IN /\ d[OpenAI] # None /\ d[Deepgram] # None /\ d[AssemblyAI] # None
          /\ d[OpenAI].start = JNum(5, 4)
          /\ d[Deepgram].start = JInt(1)
          /\ d[AssemblyAI].start = JNum(1, 800)
    /\ all_rows[1].Start_Diff_OAI_DG = JNum(1, 4)
    /\ all_rows[1].Start_Diff_DG_AAI = JNum(999, 1000)

\* The columns of a ComparisonRow.
RowColumns ==
    {"Audio_ID", "OAI_Words", "DG_Words", "AAI_Words", "OAI_Conf", "DG_Conf", "AAI_Conf",
     "Sim_OAI_vs_DG", "Sim_OAI_vs_AAI", "Sim_DG_vs_AAI",
     "Start_Diff_OAI_DG", "Start_Diff_DG_AAI",
     "OAI_Speakers", "DG_Speakers", "AAI_Speakers"}

\* C21: every row holds the identifier, a word count and a confidence for each
\* provider, the three similarities, the two start deltas, and a speaker count
\* for each of OpenAI, Deepgram and AssemblyAI.
C21_RowHoldsEveryColumn ==
    \A i \in 1..Len(all_rows) : RowColumns \subseteq DOMAIN all_rows[i]

ProviderWords == {"openai", "deepgram", "assembly"}

\* The name is `{id}_{p}.json` for a provider suffix p.
ProviderFile(name) ==
    /\ Len(name) > 3
    /\ name[Len(name)] = ".json"
    /\ name[Len(name) - 1] \in ProviderWords
    /\ name[Len(name) - 2] = "_"

\* The id of the name `{id}_{p}.json`.
NamedId(name) == SubSeq(name, 1, Len(name) - 3)

\* C22: identifier extraction inverts file name construction: the identifier
\* extracted from a discovered file `{id}_{p}.json` is id, so id is among the
\* identifiers of the run and the file is found again under id.
C22_ExtractionInvertsNaming ==
    pc # "start" =>
        \A name \in Discovered(fs) :
            ProviderFile(name) =>
                /\ ExtractId(name) = {NamedId(name)}
                /\ NamedId(name) \in unique_ids
                /\ \E w \in ProviderWords : FoundFile(fs, NamedId(name), w) = JStr(name)

\* The files of the folder that carry the identifier's name.
OwnFiles(disk, id) ==
    [name \in {FileName(id, w) : w \in ProviderWords} \cap DOMAIN disk |-> disk[name]]

\* The row of an identifier as its own files alone determine it.
OwnRow(disk, id) == BuildRow(id, LoadAll(OwnFiles(disk, id), id))

\* Every row appended is the one that the identifier's own files determine,
\* and the transcripts in hand are those of the identifier being processed.
RowsDependOnOwnFiles ==
    /\ \A i \in 1..Len(all_rows) : all_rows[i] = OwnRow(fs, all_rows[i].Audio_ID)
    /\ pc = "row" => loaded = LoadAll(OwnFiles(fs, Head(todo)), Head(todo))

\* C23: rows are computed independently.  The row of every identifier is
\* determined by the identifier's own files, whatever the files of the other
\* identifiers are, and nothing is carried from one identifier to the next.
C23_RowsIndependent ==
    /\ RowsDependOnOwnFiles
    /\ pc \in {"summary", "done", "crashed"} =>
          \A id \in unique_ids :
              \E i \in 1..Len(all_rows) : all_rows[i] = OwnRow(fs, id)

(***************************************************************************)
(* Properties of get_similarity (specification SimSpec).                   *)
(***************************************************************************)
Compared == pc = "compared"

BothStrings == text1.t = "str" /\ text2.t = "str"

\* An empty string or null.
EmptyOrNull(v) == v = None \/ v = JStr(<<>>)

\* The length of the longest common subsequence of a and b.
RECURSIVE LCSLen(_, _)
LCSLen(a, b) ==
    IF a = <<>> \/ b = <<>> THEN 0
    ELSE IF Head(a) = Head(b) THEN 1 + LCSLen(Tail(a), Tail(b))
    ELSE LET x == LCSLen(Tail(a), b)
             y == LCSLen(a, Tail(b))
         IN IF x > y THEN x ELSE y

\* The length of the longest block of characters that a and b share.
LongestBlock(a, b) ==
    LET sizes == {n \in 0..Len(a) :
                    \E i \in 1..(Len(a) - n + 1), j \in 1..(Len(b) - n + 1) :
                        SubSeq(a, i, i + n - 1) = SubSeq(b, j, j + n - 1)}
    IN CHOOSE n \in sizes : \A m \in sizes : m <= n

\* C14: get_similarity returns 0.0 whenever one of its arguments is an empty
\* string or null, whatever the other argument is, and does not fail.
C14_EmptyOrNullGivesZero ==
    (Compared /\ (EmptyOrNull(text1) \/ EmptyOrNull(text2))) => ratio = JInt(0)

C14_Witness ==
    /\ Compared
    /\ text1 = JInt(5)
    /\ text2 = None
    /\ ratio = JInt(0)

\* C15: for two strings the result r satisfies 0 <= r <= 1, and for non-empty
\* strings r = 2*M / (len(a) + len(b)), M being the total length of the matching
\* blocks: at least the longest block the strings share, and at most their
\* longest common subsequence.
C15_RatioOfMatchingBlocks ==
    (Compared /\ BothStrings) =>
        LET a == text1.s
            b == text2.s
            M == Matches(a, b, 1, Len(a) + 1, 1, Len(b) + 1)
        IN /\ Within(ratio, 0, 1)
           /\ (a # <<>> /\ b # <<>>) =>
                  /\ ratio.n * (Len(a) + Len(b)) = 2 * M * ratio.d
                  /\ LongestBlock(a, b) <= M
                  /\ M <= LCSLen(a, b)

C15_Witness ==
    /\ Compared
    /\ text1 = JStr(<<"a", "b", "a">>)
    /\ text2 = JStr(<<"b", "c", "a">>)
    /\ ratio = JNum(1, 3)

\* C16: for every non-empty string s, get_similarity(s, s) is 1.
C16_IdenticalGivesOne ==
    (Compared /\ BothStrings /\ text1 = text2 /\ text1.s # <<>>) => ratio = JInt(1)

C16_Witness ==
    /\ Compared
    /\ text1 = JStr(<<"a", "b", "a">>)
    /\ text2 = text1
    /\ ratio = JInt(1)

\* C17: similarity is symmetric: get_similarity(a, b) = get_similarity(b, a)
\* for every pair of strings.
C17_Symmetric ==
    (Compared /\ BothStrings) => ratio = get_similarity(text2, text1)

(***************************************************************************)
(* Properties of the batch drivers (specification DriverSpec).             *)
(***************************************************************************)
\* The place of a file in the sorted list of the audio files.
Position(f) == CHOOSE k \in 1..Len(files) : files[k] = f

\* The k-th request went to OpenAI and yielded no data.
Gated(k) == requests[k].provider = OpenAI /\ ~Truthy(requests[k].data)

\* The names save_json gives the three JSON files of an audio file.
JsonNames(f) == {SafeName(f, SuffixOf(p)) : p \in Providers}

\* The rows of the CSV file, none before the first write.
CsvRows == IF csv = NotWritten THEN <<>> ELSE csv

\* Every deepgram or assembly JSON was written after the openai JSON of the
\* same audio file.
OpenAIJsonFirst ==
    \A j \in 1..Len(saved) : \A f \in AudioNames :
        saved[j].name \in {SafeName(f, SuffixOf(Deepgram)), SafeName(f, SuffixOf(AssemblyAI))}
        => \E h \in 1..(j - 1) : saved[h].name = SafeName(f, SuffixOf(OpenAI))

\* C24: when the OpenAI request of a file yields no data (exception, non-200
\* status, empty body), no other request is made for that file, none of its
\* JSON files is written, no row of it is built or saved, and the loop goes
\* on with the next file; a deepgram or assembly JSON is written only after
\* the openai JSON of its file.
C24_OpenAIGatesTheFile ==
    /\ OpenAIJsonFirst
    /\ \A k \in 1..Len(requests) : Gated(k) =>
        LET f == requests[k].file
        IN /\ \A j \in 1..Len(requests) : requests[j].file = f => j = k
           /\ \A j \in 1..Len(saved) : saved[j].name \notin JsonNames(f)
           /\ \A j \in 1..Len(full_results) : full_results[j].Filename # f
           /\ \A j \in 1..Len(CsvRows) : CsvRows[j].Filename # f
           /\ pc \in {"openai", "deepgram", "assembly", "row", "save", "done"}
              => index > Position(f)
           /\ k < Len(requests)
              => /\ requests[k + 1].provider = OpenAI
                 /\ requests[k + 1].file = files[Position(f) + 1]

\* A run that skipped a file on an empty OpenAI body and built the row of a
\* later file.
C24_Witness ==
    /\ pc = "done"
    /\ \E k \in 1..Len(requests) :
          /\ Gated(k)
          /\ requests[k].data = EmptyObj
          /\ k < Len(requests)
          /\ Position(requests[k].file) < Len(files)
    /\ Len(CsvRows) = 1

\* The k-th request went to OpenAI and yielded data.
Succeeded(k) == requests[k].provider = OpenAI /\ Truthy(requests[k].data)

\* The loop is past the file: it went on to the next one, or the run is over.
Past(f) == index > Position(f) \/ pc \in {"done", "crashed"}

\* The rows of a file.
RowsOf(f) == {j \in 1..Len(full_results) : full_results[j].Filename = f}

\* What a provider's request for a file yielded; None when none was made.
Yielded(prov, f) ==
    IF \E k \in 1..Len(requests) : requests[k].provider = prov /\ requests[k].file = f
    THEN requests[CHOOSE k \in 1..Len(requests) :
                     requests[k].provider = prov /\ requests[k].file = f].data
    ELSE None

\* Data no confidence can be read from: none at all, a Deepgram body with no
\* confidence, an AssemblyAI body with a word that has none.
Unusable(prov, data) ==
    \/ ~Truthy(data)
    \/ prov = Deepgram /\ data = DeepgramDoc(Absent, EmptyObj)
    \/ prov = AssemblyAI /\ data = AssemblyDoc(<<JNum(1, 2), Absent>>, Absent)

\* C25: once the loop is past a file whose OpenAI request yielded data, the
\* file has exactly one row, whatever Deepgram and AssemblyAI returned; a
\* provider that failed or returned unusable data has confidence 0 and
\* sentiment "No" in it.
C25_OneRowWhateverOthersReturn ==
    \A k \in 1..Len(requests) : Succeeded(k) /\ Past(requests[k].file) =>
        LET f == requests[k].file
        IN /\ Cardinality(RowsOf(f)) = 1
           /\ \A j \in RowsOf(f) :
                 /\ Unusable(Deepgram, Yielded(Deepgram, f))
                    => /\ full_results[j].DG_Confidence = JInt(0)
                       /\ full_results[j].DG_Sentiment = "No"
                 /\ Unusable(AssemblyAI, Yielded(AssemblyAI, f))
                    => /\ full_results[j].AAI_Confidence = JInt(0)
                       /\ full_results[j].AAI_Sentiment = "No"

\* The rows the drivers do build: the same, for the files whose AssemblyAI
\* data does not make the extraction raise.
RowsUnlessAssemblyRaises ==
    \A k \in 1..Len(requests) :
        /\ Succeeded(k)
        /\ index > Position(requests[k].file)
        => LET f == requests[k].file
           IN /\ Cardinality(RowsOf(f)) = 1
              /\ \A j \in RowsOf(f) :
                    /\ Unusable(Deepgram, Yielded(Deepgram, f))
                       => /\ full_results[j].DG_Confidence = JInt(0)
                          /\ full_results[j].DG_Sentiment = "No"
                    /\ ~Truthy(Yielded(AssemblyAI, f))
                       => /\ full_results[j].AAI_Confidence = JInt(0)
                          /\ full_results[j].AAI_Sentiment = "No"

\* The files completed so far: the loop built their row and went past them.
Completed ==
    {f \in {files[k] : k \in 1..Len(files)} :
        /\ index > Position(f)
        /\ \E k \in 1..Len(requests) : Succeeded(k) /\ requests[k].file = f}

\* The CSV holds the rows of the completed files and no other, in ascending
\* order of the file names, which leaves no file twice; it lags behind
\* full_results only between the append and the save.
CsvHoldsCompleted ==
    /\ {CsvRows[j].Filename : j \in 1..Len(CsvRows)} = Completed
    /\ Len(CsvRows) <= Len(full_results)
    /\ \A j \in 1..Len(CsvRows) : CsvRows[j] = full_results[j]
    /\ \A j \in 1..(Len(CsvRows) - 1) : StrLess(CsvRows[j].Filename, CsvRows[j + 1].Filename)
    /\ pc # "save" => Len(CsvRows) = Len(full_results)

\* A step keeps the rows the CSV holds, in their places.
CsvOnlyGrows ==
    LET before == CsvRows
        after == CsvRows'
    IN /\ Len(before) <= Len(after)
       /\ \A j \in 1..Len(before) : after[j] = before[j]

Exited(r) == handlers[r].pc \in {"returned", "raised"}

\* C27: once a handler has returned or raised, the temporary file it created
\* no longer exists.
C27_TempFileRemovedOnExit ==
    \A r \in 1..MaxRequests : Exited(r) => handlers[r].created \notin tempdir

\* What the finally blocks do give: the file is gone once a handler that
\* reached its try block has returned or raised.
RemovedAfterTry ==
    \A r \in 1..MaxRequests :
        Exited(r) /\ handlers[r].temp_path # NoPath => handlers[r].temp_path \notin tempdir

====
